---- MODULE Spec2Model ----
(***************************************************************************)
(* Metrics normalization, hourly heart-rate aggregation, the daily         *)
(* metrics store and the context builder of the health-coaching backend    *)
(* (backend/garmin.py, backend/strava.py, backend/ai.py).                  *)
(*                                                                         *)
(* Python values are tagged records [t |-> tag, v |-> value]:              *)
(*   none | int | int_e3 (the integer 1000 * v, an epoch-millisecond       *)
(*   number too large for a machine integer of the checker) | float (v is  *)
(*   the value in tenths) | nan (the float NaN) | str | isostr (an ISO-8601 date-time string,    *)
(*   held as its parsed fields) | list (a sequence) | dict (a function     *)
(*   from key strings to values).                                          *)
(* A calendar date is its day number since 1970-01-01; a datetime is a     *)
(* day number, a second of day and its UTC offset (or naive).              *)
(* A call result is [st |-> "ok", val |-> v] or [st |-> "raise", ...].     *)
(***************************************************************************)
EXTENDS Integers, Sequences, FiniteSets, Bags, TLC

VARIABLES
    metrics,     \* MetricsCache table: a bag of rows [source, the_day, payload]
    hourly,      \* HeartRateHourly table: a bag of rows
    summaries,   \* DailyHealthSummary table: a set of rows
    now,         \* the clock: epoch seconds (UTC)
    hostTz,      \* the timezone of the process (what datetime.now() is local to)
    sessions,    \* the database sessions of the aggregations in flight, by thread
    last,        \* the last call: operation, arguments and what its collaborators did
    ret          \* the outcome of the last call

vars == <<metrics, hourly, summaries, now, hostTz, sessions, last, ret>>

---------------------------------------------------------------------------
(* Python values *)

NoneV == [t |-> "none"]
PyInt(n) == [t |-> "int", v |-> n]
PyIntE3(n) == [t |-> "int_e3", v |-> n]
PyFloat(n10) == [t |-> "float", v |-> n10]
PyNaN == [t |-> "nan"]
PyStr(s) == [t |-> "str", v |-> s]
PyList(q) == [t |-> "list", v |-> q]
PyDict(f) == [t |-> "dict", v |-> f]
PyIso(day, sod, zone, off) ==
    [t |-> "isostr", day |-> day, sod |-> sod, zone |-> zone, off |-> off]

EmptyMap == [k \in {} |-> NoneV]

Ok(v) == [st |-> "ok", val |-> v]
Raise(e) == [st |-> "raise", exc |-> e]

\* bool(v): the truth value Python's `or` and `if` test
Truthy(v) ==
    CASE v.t = "none" -> FALSE
      [] v.t \in {"int", "int_e3", "float"} -> v.v # 0
      [] v.t = "nan" -> TRUE
      [] v.t = "str" -> v.v # ""
      [] v.t = "isostr" -> TRUE
      [] v.t = "list" -> Len(v.v) > 0
      [] v.t = "dict" -> DOMAIN v.v # {}

\* a or b
Or(a, b) == IF Truthy(a) THEN a ELSE b

\* d.get(k) of a dict value
Get(d, k) == IF k \in DOMAIN d.v THEN d.v[k] ELSE NoneV

\* isinstance(v, (int, float))
IsNumber(v) == v.t \in {"int", "int_e3", "float", "nan"}

\* the decimal numerals among the strings of the model
Numerals == ("25200" :> 25200) @@ ("3600" :> 3600)

\* int(v)
ToInt(v) ==
    CASE v.t = "int" -> Ok(v.v)
      [] v.t = "int_e3" -> Ok(1000 * v.v)
      [] v.t = "float" -> Ok(IF v.v >= 0 THEN v.v \div 10 ELSE -((-v.v) \div 10))
      [] v.t = "nan" -> Raise("ValueError")
      [] v.t = "str" -> IF v.v \in DOMAIN Numerals THEN Ok(Numerals[v.v])
                        ELSE Raise("ValueError")
      [] v.t = "isostr" -> Raise("ValueError")
      [] OTHER -> Raise("TypeError")

---------------------------------------------------------------------------
(* Raw-payload normalizer: garmin.py _normalize_sleep, _normalize_hr *)

SleepDoc(total, efficiency, stages, bedtime, wakeups, raw) ==
    PyDict([sleep |-> PyDict([total_minutes_asleep |-> total,
                              efficiency |-> efficiency,
                              stages |-> stages,
                              bedtime |-> bedtime,
                              wakeups |-> wakeups,
                              raw |-> raw])])

RECURSIVE _normalize_sleep(_)
_normalize_sleep(raw) ==
    IF raw = NoneV THEN Ok(PyDict([sleep |-> NoneV]))
    ELSE
    LET isd == raw.t = "dict"
        total0 == IF isd
                  THEN Or(Or(Get(raw, "totalSleepSeconds"), Get(raw, "sleepingSeconds")),
                          Get(raw, "overallSleepSeconds"))
                  ELSE NoneV
        conv == IF total0 # NoneV THEN ToInt(total0) ELSE Ok(0)
        total == IF total0 # NoneV THEN PyInt(conv.val \div 60) ELSE NoneV
        efficiency == IF isd THEN Get(raw, "sleepEfficiency") ELSE NoneV
        wakeups == IF isd THEN Or(Get(raw, "awakeningsCount"), Get(raw, "wakeupCount"))
                   ELSE NoneV
        bedtime == IF isd
                   THEN Or(Or(Get(raw, "sleepTime"), Get(raw, "startTimeGMT")),
                           Get(raw, "startTimeLocal"))
                   ELSE NoneV
        stages == IF isd
                  THEN Or(Or(Get(raw, "sleepLevels"), Get(raw, "sleepStages")),
                          Get(raw, "levels"))
                  ELSE NoneV
    IN  IF conv.st = "raise" THEN conv
        ELSE IF raw.t = "list" /\ Len(raw.v) > 0 THEN _normalize_sleep(raw.v[1])
        ELSE Ok(SleepDoc(total, efficiency, stages, bedtime, wakeups, raw))

\* for pair in arr: the [ts, bpm] pairs of a list become {timestamp, bpm} records
PairSeries(arr) ==
    LET isPair(p) == p.t = "list" /\ Len(p.v) >= 2
        pairs == SelectSeq(arr.v, isPair)
    IN  [i \in 1..Len(pairs) |->
            PyDict([timestamp |-> pairs[i].v[1], bpm |-> pairs[i].v[2]])]

\* for s in arr["samples"]: s.get("time"), s.get("bpm")
SampleSeries(samples) ==
    CASE samples.t = "list" ->
            IF \E i \in 1..Len(samples.v) : samples.v[i].t # "dict"
            THEN Raise("AttributeError")
            ELSE Ok([i \in 1..Len(samples.v) |->
                        PyDict([timestamp |-> Get(samples.v[i], "time"),
                                bpm |-> Get(samples.v[i], "bpm")])])
      [] samples.t = "dict" ->
            IF DOMAIN samples.v = {} THEN Ok(<<>>) ELSE Raise("AttributeError")
      [] samples.t = "str" ->
            IF samples.v = "" THEN Ok(<<>>) ELSE Raise("AttributeError")
      [] samples.t = "isostr" -> Raise("AttributeError")
      [] OTHER -> Raise("TypeError")

HrDoc(series, resting, raw) ==
    PyDict([heart_rate |-> PyDict([series |-> PyList(series),
                                   resting_hr |-> resting,
                                   raw |-> raw])])

_normalize_hr(raw) ==
    IF raw = NoneV THEN Ok(PyDict([heart_rate |-> NoneV]))
    ELSE IF raw.t # "dict" THEN Ok(HrDoc(<<>>, NoneV, raw))
    ELSE
    LET arr == Or(Or(Get(raw, "heartRateValues"), Get(raw, "heartRateValuesV2")),
                  Get(raw, "values"))
        resting == Or(Get(raw, "restingHeartRate"), Get(raw, "restingHR"))
        series == IF arr.t = "list" THEN Ok(PairSeries(arr))
                  ELSE IF arr.t = "dict" /\ "samples" \in DOMAIN arr.v
                       THEN SampleSeries(arr.v["samples"])
                  ELSE Ok(<<>>)
    IN  IF series.st = "raise" THEN series
        ELSE Ok(HrDoc(series.val, resting, raw))

---------------------------------------------------------------------------
(* Timestamps and the local timezone: garmin.py MELB, _parse_ts *)

\* a datetime: day number, second of day, and its UTC offset when aware
DateTime(day, sod, aware, off) ==
    [t |-> "datetime", day |-> day + (sod \div 86400), sod |-> sod % 86400,
     aware |-> aware, off |-> off]

\* dt.datetime.fromtimestamp(sec, tz=utc)
FromTimestamp(sec) == DateTime(sec \div 86400, sec % 86400, TRUE, 0)

\* dt.datetime.fromtimestamp(1000 * k, tz=utc): 1000 k = 200 * 5 k seconds and a
\* day has 200 * 432 of them; past the year 9999 fromtimestamp raises
FromTimestampE3(k) ==
    IF k > 253402300 \/ k < 0 THEN NoneV
    ELSE DateTime((5 * k) \div 432, ((5 * k) % 432) * 200, TRUE, 0)

_parse_ts(ts) ==
    CASE ts.t = "int" -> FromTimestamp(ts.v)
      [] ts.t = "int_e3" -> IF ts.v > 1000000000 THEN FromTimestamp(ts.v)
                            ELSE FromTimestampE3(ts.v)
      [] ts.t = "float" -> FromTimestamp(ts.v \div 10)
      [] ts.t = "isostr" -> DateTime(ts.day, ts.sod, ts.zone # "naive",
                                     IF ts.zone = "offset" THEN ts.off ELSE 0)
      [] OTHER -> NoneV

\* the UTC offset of Australia/Melbourne at a UTC instant, for instants from
\* 2025-04-05T16:00Z to 2026-10-03T16:00Z: daylight time (UTC+11) runs from
\* 2025-10-04T16:00Z (day 20365) to 2026-04-04T16:00Z (day 20547)
MelbUtcOffset(day, sod) ==
    LET from(d, s) == day > d \/ (day = d /\ sod >= s)
    IN  IF from(20365, 57600) /\ ~from(20547, 57600) THEN 39600 ELSE 36000

\* t.replace(tzinfo=utc) of a naive t, then t.astimezone(MELB)
ToMelb(t) ==
    LET utc == DateTime(t.day, t.sod - (IF t.aware THEN t.off ELSE 0), TRUE, 0)
        off == MelbUtcOffset(utc.day, utc.sod)
    IN  DateTime(utc.day, utc.sod + off, TRUE, off)

\* date.max, 9999-12-31, as a day number: astimezone raises OverflowError when
\* the local time lies beyond it
DateMaxDay == 2932896
Overflows(t) == ToMelb(t).day > DateMaxDay

LocalDate(t) == t.day
LocalHour(t) == t.sod \div 3600

---------------------------------------------------------------------------
(* Hourly aggregator: garmin.py _upsert_hr_hourly *)

\* ((payload or {}).get("heart_rate") or {}).get("series") or []
SeriesOf(payload) ==
    LET p == Or(payload, PyDict(EmptyMap))
        hr == Or(Get(p, "heart_rate"), PyDict(EmptyMap))
    IN  Or(Get(hr, "series"), PyList(<<>>)).v

SampleBpm(s) == Or(Get(s, "bpm"), Get(s, "value"))
SampleTs(s) == Or(Get(s, "timestamp"), Get(s, "ts"))

\* mutant: the check of the local date is missing
Keeps_anyday(s, the_day) ==
    /\ IsNumber(SampleBpm(s))
    /\ SampleTs(s) # NoneV
    /\ _parse_ts(SampleTs(s)) # NoneV

\* the loop body's filters: the sample reaches buckets.setdefault(...).append(...)
Keeps(s, the_day) ==
    /\ IsNumber(SampleBpm(s))
    /\ SampleTs(s) # NoneV
    /\ _parse_ts(SampleTs(s)) # NoneV
    /\ LocalDate(ToMelb(_parse_ts(SampleTs(s)))) = the_day


\* the local time of a sample that parses
SampleLocal(s) == ToMelb(_parse_ts(SampleTs(s)))

\* the sample passes the isinstance checks and its timestamp parses
Parses(s) ==
    /\ IsNumber(SampleBpm(s))
    /\ SampleTs(s) # NoneV
    /\ _parse_ts(SampleTs(s)) # NoneV

\* what the loop body raises on a sample: astimezone out of range, or int(bpm)
\* of a sample of the day; NoneV when it raises nothing
SampleError(s, the_day) ==
    IF ~Parses(s) THEN NoneV
    ELSE IF Overflows(_parse_ts(SampleTs(s))) THEN Raise("OverflowError")
    ELSE IF LocalDate(SampleLocal(s)) = the_day /\ ToInt(SampleBpm(s)).st = "raise"
         THEN ToInt(SampleBpm(s))
    ELSE NoneV

\* the first error of the loop over the series, NoneV when it runs through
LoopError(series, the_day) ==
    LET bad == { i \in 1..Len(series) : SampleError(series[i], the_day) # NoneV }
    IN  IF bad = {} THEN NoneV
        ELSE SampleError(series[CHOOSE i \in bad : \A j \in bad : i <= j], the_day)

\* buckets[hour]: int(bpm) of the kept samples of that local hour, in series order
BucketVals(series, the_day, hour) ==
    LET inHour(s) == Keeps(s, the_day) /\ LocalHour(SampleLocal(s)) = hour
        kept == SelectSeq(series, inHour)
    IN  [i \in 1..Len(kept) |-> ToInt(SampleBpm(kept[i])).val]

\* buckets.keys(): the local hours that took a sample
BucketHours(series, the_day) ==
    { LocalHour(SampleLocal(series[i])) :
        i \in { j \in 1..Len(series) : Keeps(series[j], the_day) } }

RECURSIVE SumSeq(_)
SumSeq(q) == IF q = <<>> THEN 0 ELSE q[1] + SumSeq(Tail(q))

MinSeq(q) == CHOOSE x \in {q[i] : i \in 1..Len(q)} : \A j \in 1..Len(q) : x <= q[j]
MaxSeq(q) == CHOOSE x \in {q[i] : i \in 1..Len(q)} : \A j \in 1..Len(q) : x >= q[j]

\* mutant: the mean is cut to a tenth, not rounded
RoundTenths_floor(total, n) == (10 * total) \div n

\* round(total / n, 1) in tenths: the nearest tenth, a tie going to the even
\* tenth (the quotient is exact in binary floating point whenever it is a tie,
\* for n < 20)
RoundTenths(total, n) ==
    LET q == (10 * total) \div n
        r == (10 * total) % n
    IN  IF 2 * r < n THEN q
        ELSE IF 2 * r > n THEN q + 1
        ELSE IF q % 2 = 0 THEN q ELSE q + 1

\* mutant: the sum of the bucket stands where its mean should
HourRow_sum(the_day, hour, vals) ==
    [the_day |-> the_day, hour |-> hour,
     hr_mean |-> 10 * SumSeq(vals),
     hr_min |-> MinSeq(vals), hr_max |-> MaxSeq(vals), samples |-> Len(vals)]

\* the HeartRateHourly row of one bucket
HourRow(the_day, hour, vals) ==
    [the_day |-> the_day, hour |-> hour,
     hr_mean |-> RoundTenths(SumSeq(vals), Len(vals)),
     hr_min |-> MinSeq(vals), hr_max |-> MaxSeq(vals), samples |-> Len(vals)]

\* rows: one per key of buckets
HourlyRows(the_day, payload) ==
    LET series == SeriesOf(payload)
    IN  { HourRow(the_day, h, BucketVals(series, the_day, h)) :
            h \in BucketHours(series, the_day) }

\* mutant: the delete has no where clause
DeleteDay_all(table, the_day) == EmptyBag

\* mutant: the delete leaves the day's rows in place
DeleteDay_none(table, the_day) == table

\* delete(HeartRateHourly).where(the_day == the_day)
DeleteDay(table, the_day) ==
    [r \in { x \in DOMAIN table : x.the_day # the_day } |-> table[r]]

\* mutant: the fresh rows are added to whatever the table holds
ReplaceDay_append(table, the_day, rows) == table (+) SetToBag(rows)

\* the session of _upsert_hr_hourly: delete the day's rows, add the fresh ones
ReplaceDay(table, the_day, rows) == DeleteDay(table, the_day) (+) SetToBag(rows)

---------------------------------------------------------------------------
(* Daily metrics store: garmin.py _upsert_metrics, fetch_and_store *)

\* day.isoformat(): the date string of a day
IsoDate(day) == [t |-> "isodate", v |-> day]

\* d.update(x)
Update(d, x) == PyDict(x.v @@ d.v)

\* mutant: an existing row keeps the payload it has
_upsert_metrics_keep(table, day, payload) ==
    LET existing == { r \in DOMAIN table : r.source = "GARMIN" /\ r.the_day = day }
    IN  IF existing = {}
        THEN { table (+) SetToBag({[source |-> "GARMIN", the_day |-> day,
                                    payload |-> payload]}) }
        ELSE { table }

\* mutant: the existing row is looked up by day alone, whatever its source
_upsert_metrics_anysource(table, day, payload) ==
    LET existing == { r \in DOMAIN table : r.the_day = day }
    IN  IF existing = {}
        THEN { table (+) SetToBag({[source |-> "GARMIN", the_day |-> day,
                                    payload |-> payload]}) }
        ELSE { (table (-) SetToBag({r})) (+) SetToBag({[r EXCEPT !.payload = payload]}) :
                 r \in existing }

\* MetricsCache.select_one does not exist in models.py, so the first block always
\* raises AttributeError inside suppress(Exception) and the fallback runs:
\* .first() of the rows of (GARMIN, day) is any one of them; its payload is
\* replaced, or a row is added when there is none. The set of possible tables.
_upsert_metrics(table, day, payload) ==
    LET existing == { r \in DOMAIN table : r.source = "GARMIN" /\ r.the_day = day }
    IN  IF existing = {}
        THEN { table (+) SetToBag({[source |-> "GARMIN", the_day |-> day,
                                    payload |-> payload]}) }
        ELSE { (table (-) SetToBag({r})) (+) SetToBag({[r EXCEPT !.payload = payload]}) :
                 r \in existing }

\* _upsert_hr_hourly(day, payload) against the table; a failing store write
\* leaves the transaction uncommitted. [table, result]
_upsert_hr_hourly(table, the_day, payload, writeFails) ==
    LET rows == HourlyRows(the_day, payload)
        err == LoopError(SeriesOf(payload), the_day)
    IN  IF err # NoneV THEN [table |-> table, result |-> err]
        ELSE IF writeFails THEN [table |-> table, result |-> Raise("StoreError")]
        ELSE [table |-> ReplaceDay(table, the_day, rows),
              result |-> Ok(Cardinality(rows))]

\* mutant: the error of the hourly write is raised to the caller
SavedPayload_reraise(payload, hres) ==
    IF hres.st = "ok"
    THEN Ok(Update(payload, PyDict([hourly_bins_written |-> PyInt(hres.val)])))
    ELSE hres

\* the try/except around _upsert_hr_hourly: what is returned as `saved`
SavedPayload(payload, hres) ==
    IF hres.st = "ok"
    THEN Ok(Update(payload, PyDict([hourly_bins_written |-> PyInt(hres.val)])))
    ELSE Ok(Update(payload, PyDict([hourly_bins_error |-> PyStr(hres.exc)])))

\* mutant: a failing fetch still hands a response on
Fetched_keep(raw, fetchFails) == raw

\* with suppress(Exception): raw = fn(day): a failing fetch leaves None
Fetched(raw, fetchFails) == IF fetchFails THEN NoneV ELSE raw

\* fetch_and_store(day) with what the API returns (env.sleep_raw, env.hr_raw) and
\* the collaborators that fail (env.faults). The set of possible
\* [metrics, hourly, ret] outcomes.
fetch_and_store(day, env, M, H) ==
    IF "login" \in env.faults
    THEN { [metrics |-> M, hourly |-> H, ret |-> Raise("LoginError")] }
    ELSE
    LET sleep_raw == Fetched(env.sleep_raw, "sleep_fetch" \in env.faults)
        hr_raw == Fetched(env.hr_raw, "hr_fetch" \in env.faults)
        ns == _normalize_sleep(sleep_raw)
        nh == _normalize_hr(hr_raw)
        payload == Update(Update(PyDict([date |-> IsoDate(day)]), ns.val), nh.val)
        hw == _upsert_hr_hourly(H, day, payload, "hourly_write" \in env.faults)
    IN  IF ns.st = "raise" THEN { [metrics |-> M, hourly |-> H, ret |-> ns] }
        ELSE IF nh.st = "raise" THEN { [metrics |-> M, hourly |-> H, ret |-> nh] }
        ELSE IF "metrics_write" \in env.faults
        THEN { [metrics |-> M, hourly |-> H, ret |-> Raise("StoreError")] }
        ELSE { [metrics |-> M2, hourly |-> hw.table,
                ret |-> SavedPayload(payload, hw.result)] :
                 M2 \in _upsert_metrics(M, day, payload) }

\* the payload fetch_and_store normalizes from the responses of a run without
\* faults
IngestPayload(day, env) ==
    Update(Update(PyDict([date |-> IsoDate(day)]), _normalize_sleep(env.sleep_raw).val),
           _normalize_hr(env.hr_raw).val)

\* fetch_and_store(day) cut short by the death of the process after
\* _upsert_metrics has committed and before _upsert_hr_hourly: the possible tables
fetch_and_store_crash(day, env, M) == _upsert_metrics(M, day, IngestPayload(day, env))

---------------------------------------------------------------------------
(* Activity-tracker sync: strava.py fetch_activities_since, fetch_activities_after *)

\* datetime.fromisoformat(start_local.replace("Z", "+00:00")).date()
ActivityDay(a) ==
    LET start_local == Or(Get(a, "start_date_local"), Get(a, "start_date"))
    IN  CASE start_local.t = "isostr" -> Ok(start_local.day)
          [] start_local.t = "str" -> Raise("ValueError")
          [] OTHER -> Raise("AttributeError")

\* for a in items: session.add(MetricsCache(source=STRAVA, the_day=day, payload=a))
RECURSIVE AddActivities(_, _)
AddActivities(table, items) ==
    IF items = <<>> THEN Ok(table)
    ELSE LET d == ActivityDay(items[1])
         IN  IF d.st = "raise" THEN d
             ELSE AddActivities(table (+) SetToBag({[source |-> "STRAVA",
                                                      the_day |-> d.val,
                                                      payload |-> items[1]]}),
                                Tail(items))

\* the while loop: request k returns pages[k], or nothing after the last page;
\* each page is committed on its own, a raise leaves the earlier pages stored
RECURSIVE SyncPages(_, _, _, _, _)
SyncPages(table, pages, k, failAt, saved) ==
    IF failAt = k THEN [metrics |-> table, ret |-> Raise("HTTPError")]
    ELSE IF k > Len(pages) THEN [metrics |-> table, ret |-> Ok(saved)]
    ELSE LET added == AddActivities(table, pages[k])
         IN  IF added.st = "raise" THEN [metrics |-> table, ret |-> added]
             ELSE SyncPages(added.val, pages, k + 1, failAt, saved + Len(pages[k]))

\* fetch_activities_since / fetch_activities_after: the token, then the pages
StravaSync(table, env) ==
    IF env.tokenFails THEN [metrics |-> table, ret |-> Raise("RuntimeError")]
    ELSE SyncPages(table, env.pages, 1, env.failAt, 0)

---------------------------------------------------------------------------
(* Context builder: ai.py build_health_context *)

\* select(DailyHealthSummary).order_by(the_day.desc()).limit(n): the rows of the
\* n greatest days, greatest first (rows of one day come in any order)
RECURSIVE SelectDesc(_, _)
SelectDesc(rows, n) ==
    IF n <= 0 \/ rows = {} THEN <<>>
    ELSE LET r == CHOOSE x \in rows : \A y \in rows : y.the_day <= x.the_day
         IN  <<r>> \o SelectDesc(rows \ {r}, n - 1)

\* reversed(rows)
Reversed(q) == [i \in 1..Len(q) |-> q[Len(q) + 1 - i]]

\* the projection of one DailyHealthSummary row
DailyEntry(r) ==
    [day |-> IsoDate(r.the_day), sleep_min |-> r.sleep_minutes,
     sleep_eff |-> r.sleep_efficiency, sleep_score |-> r.sleep_score,
     resting_hr |-> r.resting_hr, hr_mean |-> r.hr_mean, hr_min |-> r.hr_min,
     hr_max |-> r.hr_max, steps |-> NoneV, tss |-> NoneV]

\* mutant: the rows are left in the order of the query, newest first
DailyOut_newest_first(rows, days) ==
    LET top == SelectDesc(rows, days)
    IN  [i \in 1..Len(top) |-> DailyEntry(top[i])]

\* daily_out: the rows of the window, oldest first
DailyOut(rows, days) ==
    LET top == Reversed(SelectDesc(rows, days))
    IN  [i \in 1..Len(top) |-> DailyEntry(top[i])]

\* mutant: the day of the earliest row
LatestDay_earliest(table) ==
    IF DOMAIN table = {} THEN NoneV
    ELSE PyInt(CHOOSE d \in { r.the_day : r \in DOMAIN table } :
                 \A r \in DOMAIN table : r.the_day >= d)

\* order_by(the_day.desc(), hour.desc()).limit(1): the day of the latest row
LatestDay(table) ==
    IF DOMAIN table = {} THEN NoneV
    ELSE PyInt(CHOOSE d \in { r.the_day : r \in DOMAIN table } :
                 \A r \in DOMAIN table : r.the_day <= d)

\* where(the_day == latest_day).order_by(hour): the day's rows, by hour
RECURSIVE OrderByHour(_)
OrderByHour(table) ==
    IF DOMAIN table = {} THEN <<>>
    ELSE LET r == CHOOSE x \in DOMAIN table : \A y \in DOMAIN table : x.hour <= y.hour
         IN  <<r>> \o OrderByHour(table (-) SetToBag({r}))

HoursOf(table, day) ==
    OrderByHour([r \in { x \in DOMAIN table : x.the_day = day } |-> table[r]])

\* the offset of the process's timezone at a UTC instant
HostUtcOffset(tz, day, sod) ==
    IF tz = "Australia/Melbourne" THEN MelbUtcOffset(day, sod) ELSE 0

\* datetime.now().date(): the date of the naive local time of the process
HostToday(clock, tz) ==
    LET utc == FromTimestamp(clock)
    IN  DateTime(utc.day, utc.sod + HostUtcOffset(tz, utc.day, utc.sod), FALSE, 0).day

RECURSIVE SortAsc(_)
SortAsc(q) ==
    IF q = <<>> THEN <<>>
    ELSE LET i == CHOOSE k \in 1..Len(q) : \A j \in 1..Len(q) : q[k] <= q[j]
         IN  <<q[i]>> \o SortAsc([j \in 1..(Len(q) - 1) |-> IF j < i THEN q[j] ELSE q[j + 1]])

\* round(x, 1) of a float x that stands for total / n (in units): the nearest
\* tenth; where total / n lies midway between two tenths the float is at, just
\* under or just over the midpoint, so either neighbour can come out
RoundFloat(total, n) ==
    LET q == (10 * total) \div n
        r == (10 * total) % n
    IN  IF 2 * r < n THEN {q}
        ELSE IF 2 * r > n THEN {q + 1}
        ELSE {q, q + 1}

\* mutant: the middle of the means in the order of the hours, not sorted
MedianTenths_unsorted(means) ==
    LET v == means
        mid == Len(v) \div 2
    IN  IF Len(v) % 2 = 1 THEN {v[mid + 1]}
        ELSE RoundFloat(v[mid] + v[mid + 1], 20)

\* median_so_far: the values (tenths) the rounded median of the hourly means
\* can take
MedianTenths(means) ==
    LET v == SortAsc(means)
        mid == Len(v) \div 2
    IN  IF Len(v) % 2 = 1 THEN {v[mid + 1]}
        ELSE RoundFloat(v[mid] + v[mid + 1], 20)

\* mutant: the first hour's figures stand for the day
PartialStats_first_hour(hours) ==
    [mean |-> {hours[1].hr_mean}, min |-> hours[1].hr_min, max |-> hours[1].hr_max,
     samples |-> hours[1].samples]

\* mean_so_far (its possible values), min_so_far, max_so_far, samples_total
PartialStats(hours) ==
    LET means == [i \in 1..Len(hours) |-> hours[i].hr_mean]
        mins == [i \in 1..Len(hours) |-> hours[i].hr_min]
        maxs == [i \in 1..Len(hours) |-> hours[i].hr_max]
        samples == [i \in 1..Len(hours) |-> hours[i].samples]
    IN  [mean |-> RoundFloat(SumSeq(means), 10 * Len(means)),
         min |-> MinSeq(mins), max |-> MaxSeq(maxs), samples |-> SumSeq(samples)]

\* the values today_partial of the latest day's rows can take
TodayPartial(latest_day, hours) ==
    LET means == [i \in 1..Len(hours) |-> hours[i].hr_mean]
        stats == PartialStats(hours)
    IN  { [day |-> IsoDate(latest_day), partial |-> TRUE,
           hr_mean_so_far |-> mean,
           hr_median_so_far |-> median,
           hr_min_so_far |-> stats.min,
           hr_max_so_far |-> stats.max,
           hours_observed |-> Len(hours),
           samples_total |-> stats.samples] :
          mean \in stats.mean, median \in MedianTenths(means) }

\* build_health_context(days) at the clock, in the process's timezone: the
\* values it can return
build_health_context(days, rows, table, clock, tz) ==
    LET latest_day == LatestDay(table)
        hours == IF latest_day = NoneV THEN <<>> ELSE HoursOf(table, latest_day.v)
        partials == IF latest_day # NoneV /\ latest_day.v = HostToday(clock, tz)
                    THEN TodayPartial(latest_day.v, hours)
                    ELSE {NoneV}
    IN  { [daily |-> DailyOut(rows, days),
           hourly |-> [i \in 1..Len(hours) |-> [h |-> hours[i].hour, m |-> hours[i].hr_mean]],
           today_partial |-> p] : p \in partials }

---------------------------------------------------------------------------
(* Bounds and the inputs of the model *)

MaxSeriesLen == 3      \* samples in one heart-rate series of the aggregation runs
MaxStravaRows == 2     \* activity rows the store takes
MaxWindow == 3         \* the greatest window N asked of the context builder
MaxSummaryDays == 5    \* days the summary job has rolled up
MaxRunLen == 2         \* samples in one series of the runs of aggregations

\* 2025-10-05, the day daylight time starts in Melbourne (at 2025-10-04T16:00Z)
BaseDay == 20365 + 1

\* a [timestamp, bpm] pair of heartRateValues
Pair(ts, bpm) == PyList(<<ts, bpm>>)
\* epoch seconds of a UTC day and second of day
Epoch(day, sod) == day * 86400 + sod

\* local 09:15, 09:50 and 10:05 of BaseDay (UTC+11): epoch seconds, epoch
\* milliseconds and an ISO string ending in Z
S0915 == Pair(PyInt(Epoch(BaseDay - 1, 80100)), PyInt(60))
S0950 == Pair(PyIntE3(Epoch(BaseDay - 1, 82200)), PyInt(70))
S1005 == Pair(PyIso(BaseDay - 1, 83100, "Z", 0), PyInt(80))
\* local 00:30 of BaseDay, before the change to daylight time (UTC+10)
S0030 == Pair(PyInt(Epoch(BaseDay - 1, 52200)), PyInt(50))
\* naive 20:00 of BaseDay (UTC): local 07:00 of BaseDay + 1
SNextDay == Pair(PyIso(BaseDay, 72000, "naive", 0), PyInt(90))
\* 00:30+14:00 of BaseDay: 10:30Z of BaseDay - 1, local 20:30 of BaseDay - 1
SPrevDay == Pair(PyIso(BaseDay, 1800, "offset", 50400), PyInt(55))
\* local 09:30 of BaseDay with a fractional bpm (65.7)
SFloat == Pair(PyInt(Epoch(BaseDay - 1, 81000)), PyFloat(657))
\* local 09:40 of BaseDay with bpm 0
SZero == Pair(PyInt(Epoch(BaseDay - 1, 81600)), PyInt(0))
\* local 10:10 of BaseDay with a string bpm
SStrBpm == Pair(PyInt(Epoch(BaseDay - 1, 83400)), PyStr("72"))
\* a timestamp that does not parse, and none
SBadTs == Pair(PyStr("garbage"), PyInt(75))
SNoTs == Pair(NoneV, PyInt(76))
\* local 09:20 of BaseDay with a NaN bpm (json.loads reads NaN as a float)
SNaN == Pair(PyInt(Epoch(BaseDay - 1, 80400)), PyNaN)
\* naive 9999-12-31T23:59:59: it parses, and its Melbourne time is out of range
S9999 == Pair(PyIso(DateMaxDay, 86399, "naive", 0), PyInt(77))

SamplePool ==
    {S0915, S0950, S1005, S0030, SNextDay, SPrevDay, SFloat, SZero, SStrBpm,
     SBadTs, SNoTs, SNaN, S9999}

RECURSIVE SeqsUpTo(_, _)
SeqsUpTo(S, n) ==
    IF n = 0 THEN {<<>>}
    ELSE LET shorter == SeqsUpTo(S, n - 1)
         IN  shorter \cup { Append(q, x) : q \in shorter, x \in S }

\* the raw heart-rate response holding a list of pairs
HrRaw(pairs) == PyDict([heartRateValues |-> PyList(pairs), restingHeartRate |-> PyInt(54)])

\* the payload fetch_and_store builds for a day from a raw heart-rate response
\* (no sleep data)
PayloadOf(day, hr_raw) ==
    Update(Update(PyDict([date |-> IsoDate(day)]), _normalize_sleep(NoneV).val),
           _normalize_hr(hr_raw).val)

\* the raw responses of the ingestion runs
HrFull == HrRaw(<<S0915, S0950, S1005, SNextDay>>)
HrLess == HrRaw(<<S1005, SNextDay>>)
SleepGood == PyDict([totalSleepSeconds |-> PyInt(25200), sleepEfficiency |-> PyInt(91)])
SleepBad == PyDict([totalSleepSeconds |-> PyStr("abc")])

Days == {BaseDay, BaseDay + 1}
\* the responses of a run, and the one step of it that fails, if any
IngestEnvs ==
    [sleep_raw : {SleepGood}, hr_raw : {HrFull, HrLess},
     faults : {{}} \cup {{f} : f \in {"login", "sleep_fetch", "hr_fetch",
                                      "metrics_write", "hourly_write"}}]

\* activities of the tracker: two on BaseDay, one with start_date only on the next
\* day, one without a start date
Act1 == PyDict([id |-> PyInt(1), start_date_local |-> PyIso(BaseDay, 25200, "Z", 0)])
Act2 == PyDict([id |-> PyInt(2), start_date_local |-> PyIso(BaseDay, 64800, "Z", 0)])
Act3 == PyDict([id |-> PyInt(3), start_date |-> PyIso(BaseDay + 1, 3600, "Z", 0)])
ActBad == PyDict([id |-> PyInt(4)])
PageSets ==
    {<<>>, <<<<Act1>>>>, <<<<Act1, Act2>>>>, <<<<Act1>>, <<Act3>>>>, <<<<Act2>>, <<ActBad>>>>,
     <<<<Act3, ActBad>>>>}
StravaEnvs == [pages : PageSets, failAt : 0..2, tokenFails : BOOLEAN]

---------------------------------------------------------------------------
(* The store as a state machine: ingestion and sync calls, each run to completion *)

NoCall == [op |-> "none"]
NoSessions == <<>>
NoResult == [st |-> "none"]

Init ==
    /\ metrics = EmptyBag
    /\ hourly = EmptyBag
    /\ summaries = {}
    /\ now = Epoch(BaseDay, 72000)
    /\ hostTz = "UTC"
    /\ sessions = NoSessions
    /\ last = NoCall
    /\ ret = NoResult

StravaRows(table) == BagCardinality([r \in { x \in DOMAIN table : x.source = "STRAVA" } |-> table[r]])

\* the rows of a (source, day) key, and the hours of a day's buckets
KeyCount(table, source, day) ==
    BagCardinality([r \in { x \in DOMAIN table : x.source = source /\ x.the_day = day }
                      |-> table[r]])
DayRows(table, day) == [r \in { x \in DOMAIN table : x.the_day = day } |-> table[r]]
DayHours(table, day) == { r.hour : r \in DOMAIN DayRows(table, day) }

\* the call recorded in `last` is fetch_and_store(day) with the same responses
IsCall(call, day, env) == call.op = "fetch_and_store" /\ call.day = day /\ call.env = env

\* `last` also records what the call found: whether it repeats the call before
\* it (rep), the hours the day held (prior), whether the day's record existed,
\* whether the call before it was a run for the day that died half way (recovers)
FetchAndStoreIn(days, envs) ==
    \E day \in days, env \in envs :
        \E out \in fetch_and_store(day, env, metrics, hourly) :
            /\ metrics' = out.metrics
            /\ hourly' = out.hourly
            /\ ret' = out.ret
            /\ last' = [op |-> "fetch_and_store", day |-> day, env |-> env,
                        rep |-> IsCall(last, day, env),
                        prior |-> DayHours(hourly, day),
                        existed |-> KeyCount(metrics, "GARMIN", day) > 0,
                        recovers |-> (last.op = "fetch_and_store_crash" /\ last.day = day)]
            /\ UNCHANGED <<summaries, now, hostTz, sessions>>

FetchAndStore == FetchAndStoreIn(Days, IngestEnvs)

StravaCall(name) ==
    \E env \in StravaEnvs :
        LET out == StravaSync(metrics, env)
        IN  /\ StravaRows(out.metrics) <= MaxStravaRows
            /\ metrics' = out.metrics
            /\ ret' = out.ret
            /\ last' = [op |-> name]
            /\ UNCHANGED <<hourly, summaries, now, hostTz, sessions>>

FetchActivitiesSince == StravaCall("fetch_activities_since")
FetchActivitiesAfter == StravaCall("fetch_activities_after")

Next == FetchAndStore

Spec == Init /\ [][Next]_vars

\* ingestion runs interleaved with activity syncs
SyncFetchAndStore ==
    FetchAndStoreIn(Days, [sleep_raw : {NoneV}, hr_raw : {HrFull, HrLess}, faults : {{}}])

NextSync == SyncFetchAndStore \/ FetchActivitiesSince \/ FetchActivitiesAfter

SpecSync == Init /\ [][NextSync]_vars

---------------------------------------------------------------------------
(* Claims about ingestion and the stores *)

Returned == last.op = "fetch_and_store" /\ ret.st = "ok"
HasKey(d, k) == k \in DOMAIN d.v
NoDupHours(table, day) ==
    \A r \in DOMAIN DayRows(table, day) :
        BagCardinality([x \in { y \in DOMAIN table : y.the_day = day /\ y.hour = r.hour }
                          |-> table[x]]) = 1

\* C1: running fetch_and_store(D) again with the same raw sleep and heart-rate
\* responses leaves both tables exactly as the first run left them, with one
\* daily record for (GARMIN, D) and one bucket per (D, hour).
C1_Idempotence ==
    [][ (last'.op = "fetch_and_store" /\ last'.rep) =>
            /\ metrics' = metrics
            /\ hourly' = hourly
            /\ (ret'.st = "ok" =>
                    /\ KeyCount(metrics', "GARMIN", last'.day) = 1
                    /\ NoDupHours(hourly', last'.day)) ]_vars

C1_Witness ==
    /\ Returned /\ last.rep /\ last.env.faults = {}
    /\ DayHours(hourly, last.day) # {}
    /\ KeyCount(metrics, "GARMIN", last.day) = 1

\* C3: after a run that aggregated day D, the buckets stored for D are exactly
\* the buckets of the run's series, whatever D held before: no bucket of an
\* hour the new series does not cover survives.
C3_ReplaceSemantics ==
    (Returned /\ HasKey(ret.val, "hourly_bins_written")) =>
        /\ DayRows(hourly, last.day) = SetToBag(HourlyRows(last.day, ret.val))
        /\ DayHours(hourly, last.day) = BucketHours(SeriesOf(ret.val), last.day)
        /\ ret.val.v["hourly_bins_written"] = PyInt(Cardinality(DayHours(hourly, last.day)))

C3_Witness ==
    /\ Returned /\ HasKey(ret.val, "hourly_bins_written")
    /\ 9 \in last.prior
    /\ DayHours(hourly, last.day) = {10}

\* C9 as stated: after a failed store write (the daily upsert or the hourly
\* replace) fetch_and_store raises and never returns a normal result.
C9_StoreErrorsPropagate ==
    (last.op = "fetch_and_store"
        /\ last.env.faults \cap {"metrics_write", "hourly_write"} # {})
    => ret.st = "raise"

\* C9 amended: a failed daily upsert is raised to the caller; a failed hourly
\* replace is caught: the call returns the saved payload with hourly_bins_error
\* and without hourly_bins_written.
C9_Amended ==
    /\ (last.op = "fetch_and_store" /\ "metrics_write" \in last.env.faults)
            => ret.st = "raise"
    /\ (last.op = "fetch_and_store" /\ last.env.faults = {"hourly_write"})
            => /\ ret.st = "ok"
               /\ HasKey(ret.val, "hourly_bins_error")
               /\ ~HasKey(ret.val, "hourly_bins_written")

C9_Witness ==
    /\ Returned /\ last.env.faults = {"hourly_write"}
    /\ HasKey(ret.val, "hourly_bins_error")
    /\ KeyCount(metrics, "GARMIN", last.day) = 1

\* C10 as stated: a failing login, sleep fetch or heart-rate fetch makes
\* fetch_and_store raise.
C10_TransportErrorsPropagate ==
    (last.op = "fetch_and_store"
        /\ last.env.faults \cap {"login", "sleep_fetch", "hr_fetch"} # {})
    => ret.st = "raise"

\* the responses of a run in which the API has no data where the fetch failed
AsNoData(env) ==
    [sleep_raw |-> IF "sleep_fetch" \in env.faults THEN NoneV ELSE env.sleep_raw,
     hr_raw |-> IF "hr_fetch" \in env.faults THEN NoneV ELSE env.hr_raw,
     faults |-> env.faults \ {"sleep_fetch", "hr_fetch"}]

\* C10 amended: a failing login is raised to the caller; a failing sleep or
\* heart-rate fetch is suppressed and the run goes on exactly as a run in which
\* the API returned no data for it: the payload has sleep: None, respectively
\* heart_rate: None, and with nothing else failing it is stored and returned.
C10_Amended ==
    /\ []((last.op = "fetch_and_store" /\ "login" \in last.env.faults) => ret.st = "raise")
    /\ []((last.op = "fetch_and_store" /\ last.env.faults = {"sleep_fetch"})
            => ret.st = "ok" /\ Get(ret.val, "sleep") = NoneV
                             /\ Get(ret.val, "heart_rate") # NoneV)
    /\ []((last.op = "fetch_and_store" /\ last.env.faults = {"hr_fetch"})
            => ret.st = "ok" /\ Get(ret.val, "heart_rate") = NoneV
                             /\ Get(ret.val, "sleep") # NoneV)
    /\ [][ (last'.op = "fetch_and_store"
                /\ last'.env.faults \cap {"sleep_fetch", "hr_fetch"} # {})
            => \E out \in fetch_and_store(last'.day, AsNoData(last'.env), metrics, hourly) :
                    metrics' = out.metrics /\ hourly' = out.hourly /\ ret' = out.ret ]_vars

C10_Witness ==
    /\ Returned /\ last.env.faults = {"hr_fetch"}
    /\ Get(ret.val, "heart_rate") = NoneV
    /\ \E r \in DOMAIN metrics : r.the_day = last.day /\ Get(r.payload, "heart_rate") = NoneV

\* C2 as stated: the daily metrics store never holds two records of one
\* (source, day) key.
C2_OneRecordPerKey ==
    \A r \in DOMAIN metrics : KeyCount(metrics, r.source, r.the_day) <= 1

\* C2 amended: the store never holds two records of one (GARMIN, day) key, and
\* an ingestion of an existing key leaves the one record holding the new payload;
\* an activity sync adds one record per activity, also for a (STRAVA, day) key
\* the store already holds.
C2_Amended ==
    /\ \A r \in DOMAIN metrics :
            r.source = "GARMIN" => KeyCount(metrics, "GARMIN", r.the_day) = 1
    /\ Returned =>
            \E r \in DOMAIN metrics :
                /\ r.source = "GARMIN" /\ r.the_day = last.day
                /\ Update(r.payload, PyDict([hourly_bins_written |->
                        ret.val.v["hourly_bins_written"]])) = ret.val

C2_Witness ==
    /\ Returned /\ last.existed /\ ~last.rep
    /\ KeyCount(metrics, "GARMIN", last.day) = 1
    /\ \E r \in DOMAIN metrics : r.source = "STRAVA" /\ KeyCount(metrics, "STRAVA", r.the_day) = 2

\* how many copies of a row a table holds
Copies(table, r) == IF r \in DOMAIN table THEN table[r] ELSE 0

\* C20: a step of fetch_and_store(D) leaves every daily record of another day
\* or another source, and every hourly bucket of another day, as it was, also
\* when the series of D holds samples of the days next to D.
C20_IngestionFrame ==
    [][ last'.op = "fetch_and_store" =>
            /\ \A r \in DOMAIN metrics \cup DOMAIN metrics' :
                    (r.source # "GARMIN" \/ r.the_day # last'.day)
                        => Copies(metrics', r) = Copies(metrics, r)
            /\ \A r \in DOMAIN hourly \cup DOMAIN hourly' :
                    r.the_day # last'.day => Copies(hourly', r) = Copies(hourly, r) ]_vars

\* a run for BaseDay whose series reaches into the next day replaced BaseDay's
\* hours beside the next day's record and bucket and the tracker's records
C20_Witness ==
    /\ Returned /\ last.day = BaseDay /\ last.env.hr_raw = HrLess
    /\ last.prior = {9, 10} /\ DayHours(hourly, BaseDay) = {10}
    /\ DayHours(hourly, BaseDay + 1) = {7}
    /\ KeyCount(metrics, "GARMIN", BaseDay + 1) = 1
    /\ \E r \in DOMAIN metrics : r.source = "STRAVA"

---------------------------------------------------------------------------
(* Ingestion runs of which some die between the commit of the daily payload
   and the regeneration of the hourly buckets *)

CrashEnvs ==
    [sleep_raw : {SleepGood}, hr_raw : {HrFull, HrLess},
     faults : {{}, {"hourly_write"}}]

FetchAndStoreCrash ==
    \E day \in Days, env \in CrashEnvs :
        /\ env.faults = {}
        /\ \E M2 \in fetch_and_store_crash(day, env, metrics) : metrics' = M2
        /\ ret' = [st |-> "crashed"]
        /\ last' = [op |-> "fetch_and_store_crash", day |-> day, env |-> env]
        /\ UNCHANGED <<hourly, summaries, now, hostTz, sessions>>

CrashFetchAndStore == FetchAndStoreIn(Days, CrashEnvs)

NextCrash == CrashFetchAndStore \/ FetchAndStoreCrash

SpecCrash == Init /\ [][NextCrash]_vars

\* the one record of (GARMIN, day) holds the payload
StoredPayload(day, payload) ==
    /\ KeyCount(metrics, "GARMIN", day) = 1
    /\ \E r \in DOMAIN metrics :
            r.source = "GARMIN" /\ r.the_day = day /\ r.payload = payload
Recovered == Returned /\ last.recovers

\* C12 as stated: a run that dies after the payload commit leaves the payload
\* stored, and the next run for the day that returns leaves the new payload
\* stored and the day's buckets equal to the aggregation of its series.
C12_SelfHealing ==
    /\ last.op = "fetch_and_store_crash"
            => StoredPayload(last.day, IngestPayload(last.day, last.env))
    /\ Recovered
            => /\ StoredPayload(last.day, IngestPayload(last.day, last.env))
               /\ LoopError(SeriesOf(IngestPayload(last.day, last.env)), last.day) = NoneV
               /\ DayRows(hourly, last.day)
                    = SetToBag(HourlyRows(last.day, IngestPayload(last.day, last.env)))

\* C12 amended: the same for the next run that returns with hourly_bins_written;
\* a next run that returns with hourly_bins_error has stored the new payload
\* and left the day's buckets as they were.
C12_Amended ==
    /\ last.op = "fetch_and_store_crash"
            => StoredPayload(last.day, IngestPayload(last.day, last.env))
    /\ Recovered
            => /\ StoredPayload(last.day, IngestPayload(last.day, last.env))
               /\ HasKey(ret.val, "hourly_bins_written") # HasKey(ret.val, "hourly_bins_error")
               /\ HasKey(ret.val, "hourly_bins_written")
                    => DayRows(hourly, last.day)
                        = SetToBag(HourlyRows(last.day, IngestPayload(last.day, last.env)))
               /\ HasKey(ret.val, "hourly_bins_error")
                    => DayHours(hourly, last.day) = last.prior

C12_Witness ==
    /\ Recovered /\ HasKey(ret.val, "hourly_bins_written")
    /\ last.env.hr_raw = HrLess /\ last.day = BaseDay
    /\ 9 \in last.prior
    /\ DayHours(hourly, BaseDay) = {10}
    /\ StoredPayload(BaseDay, IngestPayload(BaseDay, last.env))

---------------------------------------------------------------------------
(* The aggregation of one series: _upsert_hr_hourly on every series of up to
   MaxSeriesLen samples of the pool, for the days around BaseDay, against a
   table that holds the buckets of an earlier run *)

AggCalls ==
    { [op |-> "_upsert_hr_hourly", the_day |-> d, payload |-> PayloadOf(d, HrRaw(q))] :
        d \in {BaseDay - 1, BaseDay, BaseDay + 1}, q \in SeqsUpTo(SamplePool, MaxSeriesLen) }
PriorTable == ReplaceDay(EmptyBag, BaseDay, HourlyRows(BaseDay, PayloadOf(BaseDay, HrFull)))
Pending == [st |-> "pending"]

InitAgg ==
    /\ metrics = EmptyBag
    /\ hourly = PriorTable
    /\ summaries = {}
    /\ now = Epoch(BaseDay, 72000)
    /\ hostTz = "UTC"
    /\ sessions = NoSessions
    /\ last \in AggCalls
    /\ ret = Pending

UpsertHrHourly ==
    /\ ret = Pending
    /\ last.op = "_upsert_hr_hourly"
    /\ LET out == _upsert_hr_hourly(hourly, last.the_day, last.payload, FALSE)
       IN  hourly' = out.table /\ ret' = out.result
    /\ UNCHANGED <<metrics, summaries, now, hostTz, sessions, last>>

NextAgg == UpsertHrHourly

SpecAgg == InitAgg /\ [][NextAgg]_vars

Aggregated == last.op = "_upsert_hr_hourly" /\ ret.st = "ok"

\* the samples of the series that survive for the day and fall in a local hour
SamplesOfHour(series, day, hour) ==
    LET inHour(s) == Keeps(s, day) /\ LocalHour(SampleLocal(s)) = hour
    IN  SelectSeq(series, inHour)
\* a bpm value in tenths, and cut to an integer
BpmTenths(s) == IF SampleBpm(s).t = "float" THEN SampleBpm(s).v ELSE 10 * SampleBpm(s).v
BpmInt(s) == BpmTenths(s) \div 10
\* m (in tenths) is total / n rounded to one decimal, total in tenths too
IsRounded(m, total, n) ==
    LET d == m * n - total IN (IF d < 0 THEN -d ELSE d) * 2 <= n
RowsOfHour(table, day, hour) ==
    [r \in { x \in DOMAIN table : x.the_day = day /\ x.hour = hour } |-> table[r]]
\* the hours that hold a row of the day or take a surviving sample: every other
\* hour has neither
HoursInPlay(table, series, day) ==
    DayHours(table, day)
    \cup { LocalHour(SampleLocal(series[i])) :
             i \in { j \in 1..Len(series) : Keeps(series[j], day) } }

\* C4 as stated: each local hour with a surviving sample has one bucket, the
\* other hours none; the bucket's count is the number of those samples, its min
\* and max their smallest and largest bpm, its mean their mean to one decimal.
C4_BucketsOfSamples ==
    Aggregated =>
        \A h \in HoursInPlay(hourly, SeriesOf(last.payload), last.the_day) :
            LET ss == SamplesOfHour(SeriesOf(last.payload), last.the_day, h)
                bpm == [i \in 1..Len(ss) |-> BpmTenths(ss[i])]
                rows == RowsOfHour(hourly, last.the_day, h)
            IN  IF ss = <<>> THEN rows = EmptyBag
                ELSE /\ BagCardinality(rows) = 1
                     /\ \A r \in DOMAIN rows :
                            /\ r.samples = Len(ss)
                            /\ 10 * r.hr_min = MinSeq(bpm)
                            /\ 10 * r.hr_max = MaxSeq(bpm)
                            /\ IsRounded(r.hr_mean, SumSeq(bpm), Len(ss))

\* On the runs that return: the same, with min, max and mean taken over the samples' bpm
\* values cut to integers (int(bpm)); 09:15/60, 09:50/70, 10:05/80 gives hour 9:
\* mean 65.0, min 60, max 70, count 2 and hour 10: mean 80.0, min 80, max 80,
\* count 1.
C4_Amended ==
    Aggregated =>
        /\ \A h \in HoursInPlay(hourly, SeriesOf(last.payload), last.the_day) :
            LET ss == SamplesOfHour(SeriesOf(last.payload), last.the_day, h)
                bpm == [i \in 1..Len(ss) |-> BpmInt(ss[i])]
                rows == RowsOfHour(hourly, last.the_day, h)
            IN  IF ss = <<>> THEN rows = EmptyBag
                ELSE /\ BagCardinality(rows) = 1
                     /\ \A r \in DOMAIN rows :
                            /\ r.samples = Len(ss)
                            /\ r.hr_min = MinSeq(bpm)
                            /\ r.hr_max = MaxSeq(bpm)
                            /\ IsRounded(r.hr_mean, 10 * SumSeq(bpm), Len(ss))
        /\ last = [op |-> "_upsert_hr_hourly", the_day |-> BaseDay,
                   payload |-> PayloadOf(BaseDay, HrRaw(<<S0915, S0950, S1005>>))]
            => DayRows(hourly, BaseDay) = SetToBag({
                    [the_day |-> BaseDay, hour |-> 9, hr_mean |-> 650, hr_min |-> 60,
                     hr_max |-> 70, samples |-> 2],
                    [the_day |-> BaseDay, hour |-> 10, hr_mean |-> 800, hr_min |-> 80,
                     hr_max |-> 80, samples |-> 1]})

C4_Witness ==
    /\ Aggregated
    /\ last.the_day = BaseDay
    /\ SeriesOf(last.payload) = SeriesOf(PayloadOf(BaseDay, HrRaw(<<S0915, SFloat, S1005>>)))
    /\ \E r \in DOMAIN hourly : r.the_day = BaseDay /\ r.hour = 9 /\ r.samples = 2
                                 /\ r.hr_min = 60 /\ r.hr_max = 65 /\ r.hr_mean = 625

\* the UTC instant (epoch seconds) a timestamp value denotes, naive strings
\* taken as UTC, and its calendar date and hour in Melbourne
InstantOf(ts) ==
    CASE ts.t = "int" -> ts.v
      [] ts.t = "int_e3" -> ts.v
      [] ts.t = "isostr" -> Epoch(ts.day, ts.sod) - (IF ts.zone = "offset" THEN ts.off ELSE 0)
MelbSeconds(ts) ==
    InstantOf(ts) + MelbUtcOffset(InstantOf(ts) \div 86400, InstantOf(ts) % 86400)
MelbDate(ts) == MelbSeconds(ts) \div 86400
MelbHour(ts) == (MelbSeconds(ts) % 86400) \div 3600
\* the date a timestamp shows in its own (source) timezone
SourceDate(ts) == IF ts.t = "isostr" THEN ts.day ELSE InstantOf(ts) \div 86400
\* a sample with a numeric bpm and a timestamp that parses
WellFormed(s) ==
    /\ IsNumber(SampleBpm(s))
    /\ SampleTs(s).t \in {"int", "int_e3", "isostr"}

\* C5: a sample counts in a bucket of day D only if its timestamp, taken to
\* Melbourne time (naive timestamps as UTC), has the date D: each bucket counts
\* the well-formed samples of its local hour of D and no others, also when a
\* sample of another local date shows the date D in its source timezone.
C5_DayFiltering ==
    Aggregated =>
        LET series == SeriesOf(last.payload)
            onDay(h) == { i \in 1..Len(series) :
                            /\ WellFormed(series[i])
                            /\ MelbDate(SampleTs(series[i])) = last.the_day
                            /\ MelbHour(SampleTs(series[i])) = h }
            inPlay == DayHours(hourly, last.the_day)
                      \cup { MelbHour(SampleTs(series[i])) :
                               i \in { j \in 1..Len(series) :
                                         /\ WellFormed(series[j])
                                         /\ MelbDate(SampleTs(series[j])) = last.the_day } }
        IN  \A h \in inPlay :
                /\ onDay(h) = {} => RowsOfHour(hourly, last.the_day, h) = EmptyBag
                /\ \A r \in DOMAIN RowsOfHour(hourly, last.the_day, h) :
                        r.samples = Cardinality(onDay(h))
                /\ onDay(h) # {} => RowsOfHour(hourly, last.the_day, h) # EmptyBag

C5_Witness ==
    /\ Aggregated
    /\ last.the_day = BaseDay
    /\ \E i \in 1..Len(SeriesOf(last.payload)) :
            LET ts == SampleTs(SeriesOf(last.payload)[i])
            IN  ts.t = "isostr" /\ SourceDate(ts) = BaseDay /\ MelbDate(ts) = BaseDay + 1
    /\ \E i \in 1..Len(SeriesOf(last.payload)) :
            LET ts == SampleTs(SeriesOf(last.payload)[i])
            IN  ts.t = "isostr" /\ SourceDate(ts) = BaseDay /\ MelbDate(ts) = BaseDay - 1
    /\ DayHours(hourly, BaseDay) = {9}

\* a malformed sample: its bpm is not a number, or its timestamp does not parse
Malformed(s) ==
    \/ Get(s, "bpm").t \notin {"int", "int_e3", "float"}
    \/ Get(s, "timestamp") = NoneV
    \/ _parse_ts(Get(s, "timestamp")) = NoneV
\* the series without its malformed samples, and the buckets it gives
WithoutMalformed(series) == LET wellFormed(s) == ~Malformed(s) IN SelectSeq(series, wellFormed)
CleanRows(series, day) ==
    { HourRow(day, h, BucketVals(WithoutMalformed(series), day, h)) :
        h \in BucketHours(WithoutMalformed(series), day) }
Finished == last.op = "_upsert_hr_hourly" /\ ret # Pending

\* C11: for every series the aggregation returns without error, and the day's
\* buckets are those of the series with its malformed samples (timestamp that
\* does not parse, bpm that is not a number) taken out.
C11_MalformedSamplesDropped ==
    Finished =>
        /\ ret.st = "ok"
        /\ DayRows(hourly, last.the_day)
                = SetToBag(CleanRows(SeriesOf(last.payload), last.the_day))

---------------------------------------------------------------------------
(* The normalizers on raw responses of every shape: absent, scalars, lists,
   mappings with one field of any type, heart-rate containers of every kind *)

SleepKeys ==
    {"totalSleepSeconds", "sleepingSeconds", "overallSleepSeconds", "sleepEfficiency",
     "awakeningsCount", "wakeupCount", "sleepTime", "startTimeGMT", "startTimeLocal",
     "sleepLevels", "sleepStages", "levels"}
\* values a field of a raw response may hold: 25200.5 is in tenths
FieldValues ==
    {NoneV, PyInt(25200), PyInt(0), PyFloat(252005), PyStr("25200"), PyStr("abc"),
     PyStr(""), PyList(<<PyInt(1)>>), PyDict(EmptyMap)}
OneField(k, v) == PyDict(k :> v)

SleepRaws ==
    {NoneV, PyDict(EmptyMap), PyStr("abc"), PyInt(5), PyList(<<>>), PyList(<<NoneV>>),
     PyList(<<SleepGood>>), SleepGood, SleepBad,
     PyDict([totalSleepSeconds |-> PyInt(0), sleepingSeconds |-> PyInt(3600)]),
     PyDict([awakeningsCount |-> PyInt(0), wakeupCount |-> PyInt(3)]),
     PyDict([sleepTime |-> PyStr(""), startTimeGMT |-> PyStr("abc")])}
    \cup { OneField(k, v) : k \in SleepKeys, v \in FieldValues }
    \cup { PyList(<<OneField("totalSleepSeconds", v)>>) : v \in FieldValues }

\* what a heart-rate response may hold under its container key
HrSamples ==
    {NoneV, PyInt(5), PyStr("ab"), PyStr(""), PyDict(EmptyMap),
     PyDict([a |-> PyInt(1)]), PyList(<<>>), PyList(<<PyInt(5)>>), PyList(<<NoneV>>),
     PyList(<<PyDict([time |-> PyInt(Epoch(BaseDay, 0)), bpm |-> PyInt(61)])>>),
     PyList(<<PyDict([bpm |-> PyInt(61)])>>)}
HrContainers ==
    {NoneV, PyInt(5), PyStr("xyz"), PyDict(EmptyMap), PyDict([x |-> PyInt(1)]),
     PyList(<<>>), PyList(<<S0915, S1005>>),
     PyList(<<PyList(<<PyInt(1)>>), PyInt(5), PyStr("ab"), S0915>>)}
    \cup { PyDict([samples |-> y]) : y \in HrSamples }
HrKeys == {"heartRateValues", "heartRateValuesV2", "values"}
HrRaws ==
    {NoneV, PyDict(EmptyMap), PyList(<<PyInt(1)>>), PyStr("abc"), HrFull,
     PyDict([restingHR |-> PyInt(50)])}
    \cup { OneField(k, c) : k \in HrKeys, c \in HrContainers }

NormCalls ==
    { [op |-> "_normalize_sleep", raw |-> r] : r \in SleepRaws }
    \cup { [op |-> "_normalize_hr", raw |-> r] : r \in HrRaws }

InitNorm ==
    /\ metrics = EmptyBag
    /\ hourly = EmptyBag
    /\ summaries = {}
    /\ now = Epoch(BaseDay, 72000)
    /\ hostTz = "UTC"
    /\ sessions = NoSessions
    /\ last \in NormCalls
    /\ ret = Pending

NormalizeSleep ==
    /\ ret = Pending
    /\ last.op = "_normalize_sleep"
    /\ ret' = _normalize_sleep(last.raw)
    /\ UNCHANGED <<metrics, hourly, summaries, now, hostTz, sessions, last>>

NormalizeHr ==
    /\ ret = Pending
    /\ last.op = "_normalize_hr"
    /\ ret' = _normalize_hr(last.raw)
    /\ UNCHANGED <<metrics, hourly, summaries, now, hostTz, sessions, last>>

NextNorm == NormalizeSleep \/ NormalizeHr

SpecNorm == InitNorm /\ [][NextNorm]_vars

\* the fixed-key schema of the two sub-documents
IsSleepSchema(v) ==
    /\ v.t = "dict" /\ DOMAIN v.v = {"sleep"}
    /\ \/ v.v["sleep"] = NoneV
       \/ /\ v.v["sleep"].t = "dict"
          /\ DOMAIN v.v["sleep"].v =
                {"total_minutes_asleep", "efficiency", "stages", "bedtime", "wakeups", "raw"}
IsHrSchema(v) ==
    /\ v.t = "dict" /\ DOMAIN v.v = {"heart_rate"}
    /\ \/ v.v["heart_rate"] = NoneV
       \/ /\ v.v["heart_rate"].t = "dict"
          /\ DOMAIN v.v["heart_rate"].v = {"series", "resting_hr", "raw"}
          /\ v.v["heart_rate"].v["series"].t = "list"

\* C6: for every raw input _normalize_sleep and _normalize_hr return, never
\* raise, and what they return has the fixed-key schema ({sleep: None} or the
\* six-key sleep object; {heart_rate: None} or the three-key heart_rate object).
C6_NormalizationTotal ==
    /\ (last.op = "_normalize_sleep" /\ ret # Pending)
            => ret.st = "ok" /\ IsSleepSchema(ret.val)
    /\ (last.op = "_normalize_hr" /\ ret # Pending)
            => ret.st = "ok" /\ IsHrSchema(ret.val)

\* the value of the first key of the candidates that the mapping holds
RECURSIVE FirstPresent(_, _)
FirstPresent(raw, keys) ==
    IF keys = <<>> THEN NoneV
    ELSE IF keys[1] \in DOMAIN raw.v THEN raw.v[keys[1]]
    ELSE FirstPresent(raw, Tail(keys))
SleepOf(v) == v.v["sleep"].v
NormalizedMapping ==
    last.op = "_normalize_sleep" /\ last.raw.t = "dict" /\ ret # Pending /\ ret.st = "ok"

\* C14: each surfaced field of the sleep document holds the value of the first
\* candidate key present in the raw mapping, falsy values included, and the
\* total is that seconds value in whole minutes (25200 gives 420).
C14_FirstPresentWins ==
    NormalizedMapping =>
        LET total == FirstPresent(last.raw,
                        <<"totalSleepSeconds", "sleepingSeconds", "overallSleepSeconds">>)
            doc == SleepOf(ret.val)
        IN  /\ doc["total_minutes_asleep"]
                    = (IF total = NoneV THEN NoneV ELSE PyInt(ToInt(total).val \div 60))
            /\ doc["wakeups"] = FirstPresent(last.raw, <<"awakeningsCount", "wakeupCount">>)
            /\ doc["bedtime"]
                    = FirstPresent(last.raw, <<"sleepTime", "startTimeGMT", "startTimeLocal">>)
            /\ doc["stages"]
                    = FirstPresent(last.raw, <<"sleepLevels", "sleepStages", "levels">>)
            /\ last.raw = SleepGood => doc["total_minutes_asleep"] = PyInt(420)

\* a raw sleep input other than None was normalized
NormalizedSleep ==
    last.op = "_normalize_sleep" /\ last.raw # NoneV /\ ret # Pending /\ ret.st = "ok"

\* C18: for every raw sleep input other than None, a list input included, the
\* 'raw' field of the normalized sleep document is the input as it was given.
C18_RawRetained ==
    NormalizedSleep =>
        /\ ret.val.v["sleep"] # NoneV
        /\ "raw" \in DOMAIN SleepOf(ret.val)
        /\ SleepOf(ret.val)["raw"] = last.raw

---------------------------------------------------------------------------
(* The context builder beside the ingestion of today and yesterday, the
   summary job and the clock, in a process of either timezone *)

HostTzs == {"UTC", "Australia/Melbourne"}
SummaryDays == (BaseDay - MaxSummaryDays + 1)..BaseDay

\* datetime.now(MELB).date()
LocalToday(clock) == LocalDate(ToMelb(FromTimestamp(clock)))

\* a DailyHealthSummary row of a finished day
SummaryRow(d) ==
    [the_day |-> d, sleep_minutes |-> PyInt(400 + (d % 7)), sleep_efficiency |-> PyInt(90),
     sleep_score |-> NoneV, resting_hr |-> PyInt(54), hr_mean |-> PyFloat(650 + (d % 5)),
     hr_min |-> PyInt(48), hr_max |-> PyInt(120)]

InitCtx ==
    /\ metrics = EmptyBag
    /\ hourly = EmptyBag
    /\ summaries = {}
    /\ now = Epoch(BaseDay, 43200)
    /\ hostTz \in HostTzs
    /\ sessions = NoSessions
    /\ last = NoCall
    /\ ret = NoResult

\* time passes, to 20:00Z of BaseDay and 01:00Z of the next day: 07:00 and
\* 12:00 of BaseDay + 1 in Melbourne
Tick ==
    /\ \E c \in {Epoch(BaseDay, 72000), Epoch(BaseDay + 1, 3600)} : c > now /\ now' = c
    /\ last' = [op |-> "tick"]
    /\ ret' = NoResult
    /\ UNCHANGED <<metrics, hourly, summaries, hostTz, sessions>>

\* /garmin/sync_today and /garmin/sync_yesterday
GarminSync ==
    FetchAndStoreIn({LocalToday(now), LocalToday(now) - 1},
                    [sleep_raw : {NoneV}, hr_raw : {HrFull}, faults : {{}}])

\* the aggregation job outside this code rolls a day up into one row
SummaryJob ==
    /\ Cardinality(summaries) < MaxSummaryDays
    /\ \E d \in SummaryDays :
        /\ \A r \in summaries : r.the_day # d
        /\ summaries' = summaries \cup {SummaryRow(d)}
        /\ last' = [op |-> "summary_job", day |-> d]
    /\ ret' = NoResult
    /\ UNCHANGED <<metrics, hourly, now, hostTz, sessions>>

BuildHealthContext ==
    /\ \E days \in 1..MaxWindow :
        /\ \E out \in build_health_context(days, summaries, hourly, now, hostTz) :
                ret' = Ok(out)
        /\ last' = [op |-> "build_health_context", days |-> days]
    /\ UNCHANGED <<metrics, hourly, summaries, now, hostTz, sessions>>

NextCtx == Tick \/ GarminSync \/ SummaryJob \/ BuildHealthContext

SpecCtx == InitCtx /\ [][NextCtx]_vars

Built == last.op = "build_health_context" /\ ret.st = "ok"

\* C7: today_partial is non-null exactly when the latest day with an hourly
\* bucket is today's date in Australia/Melbourne, at every instant and in a
\* process of any timezone; null for an earlier latest day or no bucket at all.
C7_PartialPresence ==
    Built =>
        ((ret.val.today_partial # NoneV) <=>
            (LatestDay(hourly) # NoneV /\ LatestDay(hourly).v = LocalToday(now)))

\* C8: the daily list has min(N, stored rows) entries, they are the rows of the
\* N greatest days, in strictly ascending day order; N = 3 with rows D-4..D gives
\* D-2, D-1, D.
C8_ContextOrdering ==
    Built =>
        LET daily == ret.val.daily
            n == last.days
            stored == { r.the_day : r \in summaries }
            shown == { daily[i].day.v : i \in 1..Len(daily) }
        IN  /\ Len(daily) = (IF n < Cardinality(summaries) THEN n
                             ELSE Cardinality(summaries))
            /\ shown \subseteq stored
            /\ \A d \in stored \ shown : \A e \in shown : d < e
            /\ \A i \in 1..(Len(daily) - 1) : daily[i].day.v < daily[i + 1].day.v
            /\ \A i \in 1..Len(daily) :
                    \E r \in summaries : r.the_day = daily[i].day.v
                                         /\ daily[i].sleep_min = r.sleep_minutes
                                         /\ daily[i].hr_mean = r.hr_mean
            /\ (n = 3 /\ stored = (BaseDay - 4)..BaseDay)
                    => [i \in 1..Len(daily) |-> daily[i].day.v]
                            = <<BaseDay - 2, BaseDay - 1, BaseDay>>

C8_Witness ==
    /\ Built /\ last.days = 3
    /\ { r.the_day : r \in summaries } = (BaseDay - 4)..BaseDay
    /\ [i \in 1..Len(ret.val.daily) |-> ret.val.daily[i].day.v]
            = <<BaseDay - 2, BaseDay - 1, BaseDay>>

\* C17: the hourly list holds the buckets of one day, the greatest day that
\* has a bucket in the store, whatever the window N and the summary rows are,
\* each with its hour and mean, in strictly ascending hour order; it is empty
\* only when the store holds no bucket.
C17_LatestHourlyDay ==
    Built =>
        LET list == ret.val.hourly
            days == { r.the_day : r \in DOMAIN hourly }
        IN  /\ (list = <<>>) <=> (days = {})
            /\ \A d \in days :
                    (\A e \in days : e <= d) =>
                        /\ Len(list) = BagCardinality(DayRows(hourly, d))
                        /\ { list[i].h : i \in 1..Len(list) } = DayHours(hourly, d)
                        /\ \A i \in 1..Len(list) :
                                \E r \in DOMAIN hourly :
                                    r.the_day = d /\ r.hour = list[i].h /\ r.hr_mean = list[i].m
            /\ \A i \in 1..(Len(list) - 1) : list[i].h < list[i + 1].h

\* buckets of two days in the store and summary rows of earlier days only: the
\* list is the later day's, for the narrowest window
C17_Witness ==
    /\ Built /\ last.days = 1
    /\ { r.the_day : r \in DOMAIN hourly } = {BaseDay, BaseDay + 1}
    /\ summaries # {} /\ \A r \in summaries : r.the_day < BaseDay
    /\ [i \in 1..Len(ret.val.hourly) |-> ret.val.hourly[i].h] = <<7>>

---------------------------------------------------------------------------
(* Concurrent aggregations and readers: the session of _upsert_hr_hourly step
   by step against the SQLite database of models.py. The delete statement opens
   the transaction and takes the database's one write lock; the rows added to
   the session and the delete become visible together at commit; a reader
   sees committed rows only. *)

Writers == {"w1", "w2"}
\* the responses of the runs: HrFull, and local 00:30 (50) and 09:30 (65.7) of
\* BaseDay
TxnInputs == {HrFull, HrRaw(<<S0030, SFloat>>)}
Idle == [pc |-> "idle"]

InitTxn ==
    /\ metrics = EmptyBag
    /\ hourly = EmptyBag
    /\ summaries = {}
    /\ now = Epoch(BaseDay, 72000)
    /\ hostTz = "UTC"
    /\ sessions = [w \in Writers |-> Idle]
    /\ last = NoCall
    /\ ret = NoResult

\* mutant: the database lets two transactions write at once
LockFree_always(ss, w) == TRUE

\* no other session holds the write lock of the database
LockFree(ss, w) == \A v \in DOMAIN ss \ {w} : ss[v].pc # "deleted"

\* the loop over the series and the rows built from the buckets
TxBegin(w) ==
    /\ sessions[w].pc = "idle"
    /\ \E d \in Days, hr \in TxnInputs :
        sessions' = [sessions EXCEPT ![w] =
                        [pc |-> "computed", the_day |-> d,
                         rows |-> HourlyRows(d, PayloadOf(d, hr))]]
    /\ UNCHANGED <<metrics, hourly, summaries, now, hostTz, last, ret>>

\* s.exec(delete(...)): the day's rows are deleted in the transaction
TxDelete(w) ==
    /\ sessions[w].pc = "computed"
    /\ LockFree(sessions, w)
    /\ sessions' = [sessions EXCEPT ![w] =
                        [pc |-> "deleted", the_day |-> sessions[w].the_day,
                         rows |-> sessions[w].rows,
                         deleted |-> DayRows(hourly, sessions[w].the_day),
                         added |-> {}]]
    /\ UNCHANGED <<metrics, hourly, summaries, now, hostTz, last, ret>>

\* the delete statement finds the database locked until its busy timeout
\* runs out: OperationalError, nothing written
TxBusy(w) ==
    /\ sessions[w].pc = "computed"
    /\ ~LockFree(sessions, w)
    /\ sessions' = [sessions EXCEPT ![w] = Idle]
    /\ UNCHANGED <<metrics, hourly, summaries, now, hostTz, last, ret>>

\* s.add(r)
TxAdd(w) ==
    /\ sessions[w].pc = "deleted"
    /\ \E r \in sessions[w].rows :
        sessions' = [sessions EXCEPT ![w].rows = @ \ {r}, ![w].added = @ \cup {r}]
    /\ UNCHANGED <<metrics, hourly, summaries, now, hostTz, last, ret>>

\* s.commit(): the delete and the added rows reach the table
TxCommit(w) ==
    /\ sessions[w].pc = "deleted"
    /\ sessions[w].rows = {}
    /\ hourly' = (hourly (-) sessions[w].deleted) (+) SetToBag(sessions[w].added)
    /\ sessions' = [sessions EXCEPT ![w] = Idle]
    /\ UNCHANGED <<metrics, summaries, now, hostTz, last, ret>>

\* debug_garmin_hourly(day): the committed rows of the day, by hour
ReadHourly ==
    /\ \E d \in Days :
        /\ ret' = Ok(HoursOf(hourly, d))
        /\ last' = [op |-> "debug_garmin_hourly", day |-> d]
    /\ UNCHANGED <<metrics, hourly, summaries, now, hostTz, sessions>>

NextTxn ==
    \/ \E w \in Writers : TxBegin(w)
    \/ \E w \in Writers : TxDelete(w)
    \/ \E w \in Writers : TxBusy(w)
    \/ \E w \in Writers : TxAdd(w)
    \/ \E w \in Writers : TxCommit(w)
    \/ ReadHourly

SpecTxn == InitTxn /\ [][NextTxn]_vars

\* the bucket sets a single aggregation run of the day can produce, or none
CompleteOutputs(d) ==
    {EmptyBag} \cup { SetToBag(HourlyRows(d, PayloadOf(d, hr))) : hr \in TxnInputs }
RowsRead == ret.val
HasRead == last.op = "debug_garmin_hourly" /\ ret.st = "ok"

---------------------------------------------------------------------------
(* The partial-day block: today's hours ingested in every order of the hours,
   then the context built *)

\* local hours of BaseDay (UTC+11)
PartialHours == <<9, 13, 17, 21>>
\* the bpm values of the hours' samples of a day so far, before they are laid
\* on the hours
HourMenus ==
    {<<<<60>>, <<62>>, <<64>>, <<70>>>>, <<<<60>>, <<70>>, <<80>>>>,
     <<<<40>>, <<40, 40, 41>>>>, <<<<50, 90>>, <<64>>>>, <<<<62>>>>}

\* the k-th sample of local hour h of BaseDay
SampleAt(h, k, bpm) == Pair(PyInt(Epoch(BaseDay, (h - 11) * 3600 + 60 * k)), PyInt(bpm))

RECURSIVE SeriesFor(_, _, _)
SeriesFor(menu, at, i) ==
    IF i > Len(menu) THEN <<>>
    ELSE [k \in 1..Len(menu[i]) |-> SampleAt(at[i], k, menu[i][k])]
            \o SeriesFor(menu, at, i + 1)

\* the ways to lay n hours' samples on the first n of the hours
Placements(n) ==
    { f \in [1..n -> { PartialHours[i] : i \in 1..n }] :
        \A i, j \in 1..n : i # j => f[i] # f[j] }

PartialRaws ==
    UNION { { HrRaw(SeriesFor(menu, at, 1)) : at \in Placements(Len(menu)) } :
            menu \in HourMenus }

\* at 12:00Z of BaseDay: 23:00 of BaseDay in Melbourne, BaseDay in UTC too
InitPartial ==
    /\ metrics = EmptyBag
    /\ hourly = EmptyBag
    /\ summaries = {}
    /\ now = Epoch(BaseDay, 43200)
    /\ hostTz \in HostTzs
    /\ sessions = NoSessions
    /\ last = NoCall
    /\ ret = NoResult

\* /garmin/sync_today
SyncToday ==
    FetchAndStoreIn({LocalToday(now)},
                    [sleep_raw : {NoneV}, hr_raw : PartialRaws, faults : {{}}])

NextPartial == SyncToday \/ BuildHealthContext

SpecPartial == InitPartial /\ [][NextPartial]_vars

\* the context was built and carries the partial-day block
HasPartial == Built /\ ret.val.today_partial # NoneV

\* the stored buckets the block is about, and how many of them satisfy a test
TodayRows == DayRows(hourly, LatestDay(hourly).v)
CountBelow(x) == BagCardinality([r \in { y \in DOMAIN TodayRows : y.hr_mean < x } |-> TodayRows[r]])
CountUpTo(x) == BagCardinality([r \in { y \in DOMAIN TodayRows : y.hr_mean <= x } |-> TodayRows[r]])
\* the mean at place k (from 0) of the stored means in ascending order
MeanAtRank(k) ==
    CHOOSE x \in { r.hr_mean : r \in DOMAIN TodayRows } : CountBelow(x) <= k /\ k < CountUpTo(x)
\* the stored means, by hour
MeansByHour ==
    LET hours == HoursOf(hourly, LatestDay(hourly).v)
    IN  [i \in 1..Len(hours) |-> hours[i].hr_mean]

\* C15: with the partial-day block present, hr_median_so_far is the median of
\* the stored hours' means: the middle one in ascending order for an odd number
\* of hours, the average of the two central ones for an even number, rounded to
\* one decimal (within 0.05 of the average); 60.0, 62.0, 64.0, 70.0 give 63.0 and
\* 60.0, 70.0, 80.0 give 70.0, whatever hours the means belong to.
C15_PartialMedian ==
    HasPartial =>
        LET n == BagCardinality(TodayRows)
            median == ret.val.today_partial.hr_median_so_far
            means == { r.hr_mean : r \in DOMAIN TodayRows }
        IN  /\ n % 2 = 1 => median = MeanAtRank(n \div 2)
            /\ n % 2 = 0 =>
                    LET two == MeanAtRank(n \div 2 - 1) + MeanAtRank(n \div 2)
                    IN  2 * median - two \in {-1, 0, 1}
            /\ (n = 4 /\ means = {600, 620, 640, 700}) => median = 630
            /\ (n = 3 /\ means = {600, 700, 800}) => median = 700

\* the four means stand out of order by hour, and the median is 63.0
C15_Witness ==
    /\ HasPartial
    /\ MeansByHour = <<700, 600, 640, 620>>
    /\ ret.val.today_partial.hr_median_so_far = 630

\* the sum of a field over the rows of a table
RECURSIVE SumOfRows(_, _)
SumOfRows(table, field) ==
    IF DOMAIN table = {} THEN 0
    ELSE LET r == CHOOSE x \in DOMAIN table : TRUE
         IN  r[field] + SumOfRows(table (-) SetToBag({r}), field)

\* C16: with the partial-day block present, hr_mean_so_far is the mean of the
\* stored hours' means (rounded to one decimal), hr_min_so_far the least of their
\* minimums, hr_max_so_far the greatest of their maximums, samples_total the sum
\* of their sample counts and hours_observed the number of the day's buckets,
\* which is the length of the hourly list; and min <= mean <= max.
C16_PartialStats ==
    HasPartial =>
        LET p == ret.val.today_partial
            n == BagCardinality(TodayRows)
            rows == DOMAIN TodayRows
            diff == 2 * n * p.hr_mean_so_far - 2 * SumOfRows(TodayRows, "hr_mean")
        IN  /\ -n <= diff /\ diff <= n
            /\ \E r \in rows : r.hr_min = p.hr_min_so_far
            /\ \A r \in rows : r.hr_min >= p.hr_min_so_far
            /\ \E r \in rows : r.hr_max = p.hr_max_so_far
            /\ \A r \in rows : r.hr_max <= p.hr_max_so_far
            /\ p.samples_total = SumOfRows(TodayRows, "samples")
            /\ p.hours_observed = n
            /\ p.hours_observed = Len(ret.val.hourly)
            /\ 10 * p.hr_min_so_far <= p.hr_mean_so_far
            /\ p.hr_mean_so_far <= 10 * p.hr_max_so_far

\* an hour of 50 and 90 and an hour of 64: mean 67.0, min 50, max 90, 3 samples
C16_Witness ==
    /\ HasPartial
    /\ ret.val.today_partial.hours_observed = 2
    /\ ret.val.today_partial.hr_mean_so_far = 670
    /\ ret.val.today_partial.hr_min_so_far = 50
    /\ ret.val.today_partial.hr_max_so_far = 90
    /\ ret.val.today_partial.samples_total = 3

---------------------------------------------------------------------------
(* Runs of aggregations: _upsert_hr_hourly called again and again, for either
   day, on series of up to MaxRunLen samples, the commit failing or not *)

RunSeries == SeqsUpTo({S0915, SFloat, S1005, SNextDay}, MaxRunLen)

AggregateAgain ==
    \E d \in Days, q \in RunSeries, writeFails \in BOOLEAN :
        LET out == _upsert_hr_hourly(hourly, d, PayloadOf(d, HrRaw(q)), writeFails)
        IN  /\ hourly' = out.table
            /\ ret' = out.result
            /\ last' = [op |-> "_upsert_hr_hourly", the_day |-> d,
                        prior |-> DayHours(hourly, d)]
            /\ UNCHANGED <<metrics, summaries, now, hostTz, sessions>>

NextRun == AggregateAgain

SpecRun == Init /\ [][NextRun]_vars

\* C19: after any run of aggregations every stored bucket has an hour in 0..23,
\* at least one sample and min <= mean <= max, and no two stored buckets have
\* the same day and hour.
C19_BucketsWellFormed ==
    \A r \in DOMAIN hourly :
        /\ r.hour \in 0..23
        /\ r.samples >= 1
        /\ 10 * r.hr_min <= r.hr_mean /\ r.hr_mean <= 10 * r.hr_max
        /\ hourly[r] = 1
        /\ \A x \in DOMAIN hourly : (x.the_day = r.the_day /\ x.hour = r.hour) => x = r

\* an aggregation replaced hours 9 and 10 of a day while the other day keeps its
\* bucket: hour 9 now holds two samples, 60 and 65 (from 65.7), mean 62.5
C19_Witness ==
    /\ last.op = "_upsert_hr_hourly" /\ ret.st = "ok"
    /\ last.the_day = BaseDay /\ last.prior = {9, 10}
    /\ DayHours(hourly, BaseDay + 1) = {7}
    /\ \E r \in DOMAIN hourly :
            /\ r.the_day = BaseDay /\ r.hour = 9
            /\ r.samples = 2 /\ r.hr_min = 60 /\ r.hr_max = 65 /\ r.hr_mean = 625

====
